---- MODULE Spec2Model ----
(***************************************************************************)
(* Monitor scheduling and state recovery of the dexscreener monitor bot.   *)
(*                                                                         *)
(* The durable store (db.py) is three tables: monitors, prices, tokens.    *)
(* The schedule is the job queue of the telegram application (app.py,      *)
(* worker.py): repeating jobs found by name, each carrying a mutable data  *)
(* dictionary.  A tick of monitor_job is split at its suspension points    *)
(* (the awaits of send_message and of the store transaction).              *)
(*                                                                         *)
(* Specifications.  Spec runs the handlers one at a time with restarts and *)
(* every failure of a tick; the others each look at one part: SpecCmd and  *)
(* SpecLife at the commands, SpecTick and SpecTx at one subscription's     *)
(* ticks, SpecSweep at the retention job, SpecFail and SpecArgs at what    *)
(* /monitor is given, SpecConc and SpecPair at handlers that interleave at *)
(* their store access, SpecHang at the event loop during a quote request,  *)
(* SpecIso at failures inside the jobs, SpecBucket at the bucket of a     *)
(* tick.                                                                   *)
(*                                                                         *)
(* Numbers.  Prices are whole numbers of USD.  Percentages and thresholds  *)
(* are whole numbers of hundredths of a percent, the resolution that       *)
(* round(.., 2) leaves (5.0 % is 500).  An optional value is a sequence of *)
(* length 0 (None) or 1.                                                   *)
(***************************************************************************)
EXTENDS Integers, Sequences, FiniteSets, Bags

VARIABLES
    monitors,   \* the monitors table: a sequence of rows, a row's id is its index
    prices,     \* the prices table: a set of rows
    tokens,     \* the tokens table: a set of rows
    jobs,       \* the job queue: a bag of jobs
    now,        \* time.time(), in seconds
    reply,      \* what the step replied to a command ("none": it was no command)
    ops,        \* commands, restarts and ticks started so far
    calls       \* the handlers suspended between their store access and the
                \* job queue: a bag of calls

vars == <<monitors, prices, tokens, jobs, now, reply, ops, calls>>

----------------------------------------------------------------------------
(* Bounds of the model *)

\* commands, restarts and tick starts of a run
MaxOps == 4
\* the last second of the clock
MaxTime == 5
\* the last second of the clock of the retention runs: 25 hours
MaxSweepTime == 90000
\* the largest bucket seconds PRICE_BUCKET_SECONDS is given
MaxBucket == 4

(* Program constants *)

BUCKET_SECS == 5
\* timedelta(hours=24), in seconds
RETENTION_SECS == 86400

(* The inputs of the model: the subscriptions chats ask for (one chat on two
   chains of a token, two chats on one chain of it), thresholds of 5 % and
   10 %, the quotes the API gives *)

Idents == {<<1, "solana", "A">>, <<1, "eth", "A">>, <<2, "solana", "A">>}
Thresholds == {500, 1000}
Prices == {100, 106}
Symbols == {"SYM"}

(* The inputs of the decision of a tick: prices with changes of 4 %, 6 % and
   4.99975 %, a price of 0, thresholds of 5 % and 6 % *)

TickPrices == {0, 100, 104, 106, 20001, 21001}
TickThresholds == {500, 600}

(* The threshold arguments of /monitor, as sequences of characters: "5",
   "10", "0", "-5", "x"; and no argument *)

ThresholdArgs == {<<"5">>, <<"1", "0">>, <<"0">>, <<"-", "5">>, <<"x">>}

(* The inputs of the retention runs: the clock moves by 2 hours or by 23
   hours, the API quotes one price *)

SweepSteps == {7200, 82800}
SweepPrices == {106}

None == <<>>
Some(x) == <<x>>
Val(o) == o[1]

Abs(x) == IF x < 0 THEN -x ELSE x

----------------------------------------------------------------------------
(* db.py: the monitors table.  A row's id is its index. *)

ActiveIds(rows, chat, chain, token) ==
    {i \in 1..Len(rows) : /\ rows[i].chat = chat
                          /\ rows[i].chain = chain
                          /\ rows[i].token = token
                          /\ rows[i].active}

NewRow(chat, chain, token, thr) ==
    [chat |-> chat, chain |-> chain, token |-> token, thr |-> thr,
     active |-> TRUE, prev |-> None, prevAt |-> None]

\* a plain INSERT, with no ON CONFLICT clause
upsert_monitor_insert(rows, chat, chain, token, thr) ==
    [rows |-> Append(rows, NewRow(chat, chain, token, thr)), id |-> Len(rows) + 1]

\* INSERT .. ON CONFLICT (chat_id, chain_id, token_address) WHERE is_active
\* DO UPDATE SET threshold_pct .. RETURNING id
upsert_monitor(rows, chat, chain, token, thr) ==
    LET hit == ActiveIds(rows, chat, chain, token) IN
    IF hit # {}
    THEN LET i == CHOOSE k \in hit : TRUE IN
         [rows |-> [rows EXCEPT ![i].thr = thr], id |-> i]
    ELSE [rows |-> Append(rows, NewRow(chat, chain, token, thr)),
          id |-> Len(rows) + 1]

\* UPDATE monitors SET is_active = FALSE WHERE .. AND is_active RETURNING id
deactivate_monitor(rows, chat, chain, token) ==
    LET hit == ActiveIds(rows, chat, chain, token) IN
    [rows |-> [i \in 1..Len(rows) |->
                 IF i \in hit THEN [rows[i] EXCEPT !.active = FALSE]
                 ELSE rows[i]],
     id |-> IF hit = {} THEN 0 ELSE CHOOSE k \in hit : TRUE]

\* UPDATE monitors SET prev_price_usd = :p, prev_price_at = :t WHERE id = :id
update_monitor_prev(rows, id, price, ts) ==
    [i \in 1..Len(rows) |->
       IF i = id THEN [rows[i] EXCEPT !.prev = Some(price), !.prevAt = Some(ts)]
       ELSE rows[i]]

\* SELECT id, .. FROM monitors WHERE is_active = TRUE
active_monitors(rows) == {i \in 1..Len(rows) : rows[i].active}

(* db.py: the prices table *)

\* an insert that overwrites the row of its key
store_price_overwrite(tbl, chain, token, ts, price) ==
    {r \in tbl : ~(r.chain = chain /\ r.token = token /\ r.ts = ts)}
      \cup {[chain |-> chain, token |-> token, ts |-> ts, price |-> price]}

\* INSERT INTO prices .. ON CONFLICT (chain_id, token_address, ts) DO NOTHING
store_price(tbl, chain, token, ts, price) ==
    IF \E r \in tbl : r.chain = chain /\ r.token = token /\ r.ts = ts
    THEN tbl
    ELSE tbl \cup {[chain |-> chain, token |-> token, ts |-> ts, price |-> price]}

\* a delete that also takes the rows at the cutoff
delete_prices_upto(tbl, cutoff) == {r \in tbl : ~(r.ts <= cutoff)}

\* DELETE FROM prices WHERE ts < :cutoff
delete_prices_older_than(tbl, cutoff) == {r \in tbl : ~(r.ts < cutoff)}

(* db.py: the tokens table; symbol is optional *)

\* INSERT INTO tokens .. ON CONFLICT (chain_id, token_address)
\* DO UPDATE SET symbol = COALESCE(EXCLUDED.symbol, tokens.symbol)
ensure_token(tbl, chain, token, symbol) ==
    IF \E r \in tbl : r.chain = chain /\ r.token = token
    THEN {IF r.chain = chain /\ r.token = token /\ symbol # None
          THEN [r EXCEPT !.symbol = symbol] ELSE r : r \in tbl}
    ELSE tbl \cup {[chain |-> chain, token |-> token, symbol |-> symbol]}

----------------------------------------------------------------------------
(* app.py: the decision of a tick (lines 97-105) *)

\* n / d rounded to the nearest integer, ties to the even one (d > 0)
RoundDiv(n, d) ==
    LET q == n \div d
        r == n % d
    IN  IF 2 * r < d THEN q
        ELSE IF 2 * r > d THEN q + 1
        ELSE IF q % 2 = 0 THEN q ELSE q + 1

\* round((new - prev) / (prev or 1e-9) * 100, 2), in hundredths of a percent.
\* With prev = 0 the quotient is new * 1e11 percent: it saturates at PctCap,
\* which is above every threshold of the model.
PctCap == 2000000000

Pct(prev, new) ==
    IF prev = 0
    THEN (IF new = 0 THEN 0 ELSE IF new > 0 THEN PctCap ELSE -PctCap)
    ELSE RoundDiv((new - prev) * 10000, prev)

\* a strict comparison
AlertsStrict(prev, new, thr) == Abs(Pct(prev, new)) > thr

\* if abs(pct) >= threshold
Alerts(prev, new, thr) == Abs(Pct(prev, new)) >= thr

\* the message a tick that got a price decides to send
Decide(prev, new, thr) ==
    IF prev = None THEN "info"
    ELSE IF Alerts(Val(prev), new, thr) THEN "alert" ELSE "none"

\* a bucket that is the multiple of b nearest to now_s
ts_bucket_nearest(now_s, b) == ((now_s + b \div 2) \div b) * b

\* line 95: (now_s // b) * b for now_s = int(time.time()) and b the bucket
\* seconds; // and \div both round down.  The datetime of the result is
\* kept as its second of the epoch.
ts_bucket(now_s, b) == (now_s \div b) * b

\* ts_bucket = (now_s // BUCKET_SECS) * BUCKET_SECS
Bucket(t) == ts_bucket(t, BUCKET_SECS)

----------------------------------------------------------------------------
(* The job queue: a bag of jobs.  A job is scheduled (live) or has been      *)
(* removed while its tick is still running; a removed job with no running   *)
(* tick is gone.                                                            *)

\* job_name = f"monitor-{chat_id}-{token_address}"
JobName(chat, token) == <<chat, token>>

\* run_repeating(monitor_job, .., name=job_name, data={..}); boot marks a job
\* of the startup rebuild until its first tick has ended
NewJob(chat, token, chain, thr, prev, mid, boot) ==
    [live |-> TRUE, pc |-> "idle", name |-> JobName(chat, token),
     chat |-> chat, token |-> token, chain |-> chain, thr |-> thr,
     prev |-> prev, mid |-> mid, boot |-> boot,
     price |-> None, ts |-> None, sym |-> "?", msg |-> "none", exc |-> "none"]

JobSet(js) == BagToSet(js)

\* job_queue.get_jobs_by_name(job_name)
get_jobs_by_name(js, name) == {job \in JobSet(js) : job.live /\ job.name = name}

AddJob(js, job) == js (+) SetToBag({job})
DelJob(js, job) == js (-) SetToBag({job})

\* a removal that leaves a job with a running tick scheduled
schedule_removal_idle(js, job) ==
    IF job.pc = "idle" THEN DelJob(js, job) ELSE js

\* job.schedule_removal(): no further tick starts; a running tick goes on
schedule_removal(js, job) ==
    IF job.pc = "idle" THEN DelJob(js, job)
    ELSE AddJob(DelJob(js, job), [job EXCEPT !.live = FALSE])

\* for job in get_jobs_by_name(job_name): job.schedule_removal()
RECURSIVE RemoveAll(_, _)
RemoveAll(js, found) ==
    IF found = {} THEN js
    ELSE LET job == CHOOSE x \in found : TRUE
         IN  RemoveAll(schedule_removal(js, job),
                       IF CopiesIn(job, js) > 1 THEN found ELSE found \ {job})

RemoveByName(js, name) == RemoveAll(js, get_jobs_by_name(js, name))

run_repeating(js, job) == AddJob(js, job)

\* the end of a tick: the locals are dropped, a removed job is gone
TickDone(js, job) ==
    IF job.live
    THEN AddJob(DelJob(js, job),
                [job EXCEPT !.pc = "idle", !.boot = FALSE, !.price = None,
                            !.ts = None, !.sym = "?", !.msg = "none", !.exc = "none"])
    ELSE DelJob(js, job)

\* the tick goes to its except clause with the exception e; the price, the
\* bucket and the symbol are dead from there on
ToExcept(js, job, e) ==
    AddJob(DelJob(js, job),
           [job EXCEPT !.pc = "err", !.exc = e, !.price = None, !.ts = None, !.sym = "?"])

----------------------------------------------------------------------------
(* app.py: the command handlers *)

\* /monitor <token> [threshold] [chain]
Subscribe(chat, token, thr, chain) ==
    LET up == upsert_monitor(monitors, chat, chain, token, thr)
        cleared == RemoveByName(jobs, JobName(chat, token))
    IN  /\ monitors' = up.rows
        /\ tokens' = ensure_token(tokens, chain, token, None)
        /\ jobs' = run_repeating(cleared, NewJob(chat, token, chain, thr, None, up.id, FALSE))
        /\ reply' = "started"
        /\ UNCHANGED <<prices, now>>

\* float(s) for a decimal integer literal with an optional sign, in
\* hundredths; None when float raises ValueError
Digits == {"0", "1", "2", "3", "4", "5", "6", "7", "8", "9"}

DigitVal(c) ==
    CASE c = "0" -> 0 [] c = "1" -> 1 [] c = "2" -> 2 [] c = "3" -> 3 [] c = "4" -> 4
      [] c = "5" -> 5 [] c = "6" -> 6 [] c = "7" -> 7 [] c = "8" -> 8 [] c = "9" -> 9

RECURSIVE Number(_)
Number(cs) ==
    IF cs = <<>> THEN 0
    ELSE Number(SubSeq(cs, 1, Len(cs) - 1)) * 10 + DigitVal(cs[Len(cs)])

float(cs) ==
    LET body == IF cs # <<>> /\ cs[1] \in {"-", "+"} THEN Tail(cs) ELSE cs IN
    IF body = <<>> \/ \E k \in 1..Len(body) : body[k] \notin Digits THEN None
    ELSE Some((IF cs[1] = "-" THEN -1 ELSE 1) * Number(body) * 100)

\* lines 154-157: threshold = float(args[1]) if there is one, 3.0 when there
\* is none or float raises ValueError; arg is None or Some(characters)
threshold_of(arg) ==
    IF arg = None THEN 300
    ELSE IF float(Val(arg)) = None THEN 300 ELSE Val(float(Val(arg)))

\* /monitor with its threshold argument as typed
monitor_args(chat, token, arg, chain) == Subscribe(chat, token, threshold_of(arg), chain)

\* a handler that schedules the job although its transaction raised
monitor_schedules_anyway(chat, token, thr, chain, committed) ==
    IF committed THEN Subscribe(chat, token, thr, chain)
    ELSE /\ jobs' = run_repeating(RemoveByName(jobs, JobName(chat, token)),
                                  NewJob(chat, token, chain, thr, None, 0, FALSE))
         /\ reply' = "started"
         /\ UNCHANGED <<monitors, prices, tokens, now>>

\* monitor, lines 160-195: the transaction of lines 161-172 commits, or it
\* raises and is rolled back; the exception leaves the handler at line 172,
\* before the job queue is touched and before any reply
monitor(chat, token, thr, chain, committed) ==
    IF committed THEN Subscribe(chat, token, thr, chain)
    ELSE /\ reply' = "raised"
         /\ UNCHANGED <<monitors, prices, tokens, jobs, now>>

\* /stop <token> [chain]
Unsubscribe(chat, token, chain) ==
    LET down == deactivate_monitor(monitors, chat, chain, token)
        found == get_jobs_by_name(jobs, JobName(chat, token))
    IN  /\ monitors' = down.rows
        /\ IF found = {}
           THEN /\ reply' = "noactive"
                /\ jobs' = jobs
           ELSE /\ jobs' = RemoveAll(jobs, found)
                /\ reply' = "stopped"
        /\ UNCHANGED <<prices, tokens, now>>

----------------------------------------------------------------------------
(* app.py on_startup, worker.py main: the schedule is rebuilt from the store *)

\* a rebuild that seeds no price
RebuildJobFresh(rows, m) ==
    NewJob(rows[m].chat, rows[m].token, rows[m].chain, rows[m].thr, None, m, TRUE)

\* lines 320-333: the job of row m, seeded with the row's threshold and price
RebuildJob(rows, m) ==
    NewJob(rows[m].chat, rows[m].token, rows[m].chain, rows[m].thr,
           rows[m].prev, m, TRUE)

\* for m in mons: remove the jobs of its name, then run_repeating
RECURSIVE RebuildLoop(_, _, _)
RebuildLoop(rows, mons, js) ==
    IF mons = <<>> THEN js
    ELSE LET m == Head(mons)
             cleared == RemoveByName(js, JobName(rows[m].chat, rows[m].token))
         IN  RebuildLoop(rows, Tail(mons), run_repeating(cleared, RebuildJob(rows, m)))

\* the orders in which SELECT (no ORDER BY) may return a set of rows
Orders(S) ==
    {f \in [1..Cardinality(S) -> S] : \A a, b \in 1..Cardinality(S) : a # b => f[a] # f[b]}

\* The process restarts: the job queue starts empty, every running tick is lost.
Restart ==
    /\ \E mons \in Orders(active_monitors(monitors)) :
          jobs' = RebuildLoop(monitors, mons, EmptyBag)
    /\ reply' = "none"
    /\ UNCHANGED <<monitors, prices, tokens, now>>

----------------------------------------------------------------------------
(* The handlers split where they suspend: each awaits its store access, and  *)
(* from there to its next await it runs on the event loop with no other     *)
(* handler or tick in between.  A call is a handler suspended after its     *)
(* store access, with the locals it goes on with.                           *)

Call(op, chat, token, chain, thr, mid, rows, mons) ==
    [op |-> op, chat |-> chat, token |-> token, chain |-> chain, thr |-> thr,
     mid |-> mid, rows |-> rows, mons |-> mons]

CallSet(cs) == BagToSet(cs)

\* monitor, lines 161-172: the transaction commits, monitor_id is kept
MonitorTx(chat, token, thr, chain) ==
    LET up == upsert_monitor(monitors, chat, chain, token, thr) IN
    /\ monitors' = up.rows
    /\ tokens' = ensure_token(tokens, chain, token, None)
    /\ calls' = calls (+) SetToBag({Call("monitor", chat, token, chain, thr, up.id, <<>>, <<>>)})
    /\ reply' = "none"
    /\ UNCHANGED <<prices, jobs, now>>

\* a schedule step that removes no job before it adds one
MonitorScheduleKeep(c) ==
    /\ c \in CallSet(calls)
    /\ c.op = "monitor"
    /\ jobs' = run_repeating(jobs, NewJob(c.chat, c.token, c.chain, c.thr, None, c.mid, FALSE))
    /\ calls' = calls (-) SetToBag({c})
    /\ reply' = "started"
    /\ UNCHANGED <<monitors, prices, tokens, now>>

\* monitor, lines 175-195: the jobs of the name are removed, the new job is
\* added, then the reply is sent
MonitorSchedule(c) ==
    /\ c \in CallSet(calls)
    /\ c.op = "monitor"
    /\ jobs' = run_repeating(RemoveByName(jobs, JobName(c.chat, c.token)),
                             NewJob(c.chat, c.token, c.chain, c.thr, None, c.mid, FALSE))
    /\ calls' = calls (-) SetToBag({c})
    /\ reply' = "started"
    /\ UNCHANGED <<monitors, prices, tokens, now>>

\* stop, lines 206-208: the transaction commits, its result is dropped
StopTx(chat, token, chain) ==
    LET down == deactivate_monitor(monitors, chat, chain, token) IN
    /\ monitors' = down.rows
    /\ calls' = calls (+) SetToBag({Call("stop", chat, token, chain, 0, 0, <<>>, <<>>)})
    /\ reply' = "none"
    /\ UNCHANGED <<prices, tokens, jobs, now>>

\* stop, lines 211-218
StopSchedule(c) ==
    /\ c \in CallSet(calls)
    /\ c.op = "stop"
    /\ LET found == get_jobs_by_name(jobs, JobName(c.chat, c.token)) IN
          IF found = {}
          THEN reply' = "noactive" /\ jobs' = jobs
          ELSE jobs' = RemoveAll(jobs, found) /\ reply' = "stopped"
    /\ calls' = calls (-) SetToBag({c})
    /\ UNCHANGED <<monitors, prices, tokens, now>>

\* The process restarts and on_startup reads the active rows (line 315): the
\* job queue starts empty, every running tick and suspended handler is lost.
StartupRead ==
    /\ \E mons \in Orders(active_monitors(monitors)) :
          calls' = SetToBag({Call("startup", 0, "", "", 0, 0, monitors, mons)})
    /\ jobs' = EmptyBag
    /\ reply' = "none"
    /\ UNCHANGED <<monitors, prices, tokens, now>>

\* on_startup, lines 316-334: the loop over the rows it read
StartupLoop(c) ==
    /\ c \in CallSet(calls)
    /\ c.op = "startup"
    /\ jobs' = RebuildLoop(c.rows, c.mons, jobs)
    /\ calls' = calls (-) SetToBag({c})
    /\ reply' = "none"
    /\ UNCHANGED <<monitors, prices, tokens, now>>

----------------------------------------------------------------------------
(* app.py monitor_job: one tick, split at its awaits *)

\* what get_token_pairs gives: no pairs, a pair without priceUsd, an exception,
\* or a price with the pair's symbol ("?" when it has none)
Fetched(ps, syms) ==
    {[kind |-> k, price |-> None, sym |-> "?"] : k \in {"nopairs", "noprice", "exc"}}
      \cup {[kind |-> "ok", price |-> Some(p), sym |-> y] : p \in ps, y \in syms}

\* lines 79-105: the job queue after the tick of job has seen the quote got
Quoted(js, job, got) ==
    CASE got.kind = "exc" -> ToExcept(js, job, "fetch")
      [] got.kind \in {"nopairs", "noprice"} ->
           AddJob(DelJob(js, job), [job EXCEPT !.pc = "send", !.msg = got.kind])
      [] OTHER ->
           LET m == Decide(job.prev, Val(got.price), job.thr)
               seen == [job EXCEPT !.price = got.price, !.sym = got.sym,
                                   !.ts = Some(Bucket(now)), !.msg = m]
           IN  AddJob(DelJob(js, job),
                      IF m = "none"
                      THEN [seen EXCEPT !.pc = "tx", !.prev = got.price]
                      ELSE [seen EXCEPT !.pc = "send"])

\* lines 69-97: the data is read, the quote is fetched, the message is decided
TickFetch(job, got) ==
    /\ job \in JobSet(jobs)
    /\ job.live
    /\ job.pc = "idle"
    /\ jobs' = Quoted(jobs, job, got)
    /\ reply' = "none"
    /\ UNCHANGED <<monitors, prices, tokens, now>>

\* lines 69-78: the data is read and get_token_pairs is called; requests is
\* synchronous, so until the call returns the event loop runs nothing else
TickCall(job) ==
    /\ job \in JobSet(jobs)
    /\ job.live
    /\ job.pc = "idle"
    /\ jobs' = AddJob(DelJob(jobs, job), [job EXCEPT !.pc = "fetch"])
    /\ reply' = "none"
    /\ UNCHANGED <<monitors, prices, tokens, now>>

\* lines 78-97: get_token_pairs returns or raises, the message is decided
TickReturn(job, got) ==
    /\ job \in JobSet(jobs)
    /\ job.pc = "fetch"
    /\ jobs' = Quoted(jobs, job, got)
    /\ reply' = "none"
    /\ UNCHANGED <<monitors, prices, tokens, now>>

\* the event loop is free: no get_token_pairs call is outstanding on it
OnLoop == ~\E job \in JobSet(jobs) : job.pc = "fetch"

\* await context.bot.send_message(..) of lines 80, 88, 98, 102; delivered or raising
TickSend(job, delivered) ==
    /\ job \in JobSet(jobs)
    /\ job.pc = "send"
    /\ jobs' =
         IF ~delivered THEN ToExcept(jobs, job, "notify")
         ELSE IF job.msg \in {"nopairs", "noprice"} THEN DelJob(jobs, job)
         ELSE AddJob(DelJob(jobs, job), [job EXCEPT !.pc = "tx", !.prev = job.price])
    /\ reply' = "none"
    /\ UNCHANGED <<monitors, prices, tokens, now>>

\* lines 111-117: the store transaction, committed or failing as a whole
TickTx(job, committed) ==
    /\ job \in JobSet(jobs)
    /\ job.pc = "tx"
    /\ IF committed
       THEN /\ prices' = store_price(prices, job.chain, job.token, Val(job.ts), Val(job.price))
            /\ monitors' = update_monitor_prev(monitors, job.mid, Val(job.price), Val(job.ts))
            /\ tokens' = IF job.sym # "?"
                         THEN ensure_token(tokens, job.chain, job.token, Some(job.sym))
                         ELSE tokens
            /\ jobs' = TickDone(jobs, job)
       ELSE /\ jobs' = ToExcept(jobs, job, "store")
            /\ UNCHANGED <<monitors, prices, tokens>>
    /\ reply' = "none"
    /\ UNCHANGED now

\* lines 113-117: the store after the first n statements of the tick of job
tick_writes(store, job, n) ==
    [prices |-> IF n >= 1
                THEN store_price(store.prices, job.chain, job.token, Val(job.ts), Val(job.price))
                ELSE store.prices,
     monitors |-> IF n >= 2
                  THEN update_monitor_prev(store.monitors, job.mid, Val(job.price), Val(job.ts))
                  ELSE store.monitors,
     tokens |-> IF n >= 3 /\ job.sym # "?"
                THEN ensure_token(store.tokens, job.chain, job.token, Some(job.sym))
                ELSE store.tokens]

\* every statement commits on its own: the ones before the failing one stay
autocommit(store, job, failing) ==
    IF failing = 0 THEN tick_writes(store, job, 3)
    ELSE tick_writes(store, job, failing - 1)

\* async with s.begin(): statement number failing raises (0: none does) and
\* the transaction is rolled back, or all three statements are committed
transaction(store, job, failing) ==
    IF failing = 0 THEN tick_writes(store, job, 3) ELSE store

\* the exception of the statement that raised
StoreExc(failing) ==
    CASE failing = 1 -> "store1" [] failing = 2 -> "store2" [] OTHER -> "store3"

\* lines 107-119: the store transaction, with the statement that raises
TickTxAt(job, failing) ==
    LET after == transaction([prices |-> prices, monitors |-> monitors, tokens |-> tokens],
                             job, failing) IN
    /\ job \in JobSet(jobs)
    /\ job.pc = "tx"
    /\ prices' = after.prices
    /\ monitors' = after.monitors
    /\ tokens' = after.tokens
    /\ jobs' = IF failing = 0 THEN TickDone(jobs, job)
               ELSE ToExcept(jobs, job, StoreExc(failing))
    /\ reply' = "none"
    /\ UNCHANGED now

\* lines 119-122: the error is reported, then the job removes itself; when the
\* report itself raises, schedule_removal is not reached
TickErr(job, delivered) ==
    /\ job \in JobSet(jobs)
    /\ job.pc = "err"
    /\ jobs' = IF delivered THEN DelJob(jobs, job) ELSE TickDone(jobs, job)
    /\ reply' = "none"
    /\ UNCHANGED <<monitors, prices, tokens, now>>

\* lines 124-134: cutoff = utcnow() - 24h, then one transaction that commits
\* or fails as a whole; a failure is logged
retention_job(committed) ==
    LET cutoff == now - RETENTION_SECS IN
    /\ prices' = IF committed THEN delete_prices_older_than(prices, cutoff) ELSE prices
    /\ reply' = "none"
    /\ UNCHANGED <<monitors, tokens, jobs, now>>

\* time.time() moves on by d seconds
Elapse(d) ==
    /\ now + d <= MaxSweepTime
    /\ now' = now + d
    /\ reply' = "none"
    /\ UNCHANGED <<monitors, prices, tokens, jobs, ops, calls>>

\* time.time() moves on
Advance ==
    /\ now < MaxTime
    /\ now' = now + 1
    /\ reply' = "none"
    /\ UNCHANGED <<monitors, prices, tokens, jobs, ops, calls>>

----------------------------------------------------------------------------
(* Specifications *)

\* a command, a restart or the start of a tick uses up one of the MaxOps
Counted == ops < MaxOps /\ ops' = ops + 1

\* the step suspends no handler and resumes none
NoCall == calls' = calls

\* an empty store, an empty job queue, the clock a second before a bucket ends
Init ==
    /\ monitors = <<>>
    /\ prices = {}
    /\ tokens = {}
    /\ jobs = EmptyBag
    /\ now = BUCKET_SECS - 1
    /\ reply = "none"
    /\ ops = 0
    /\ calls = EmptyBag

\* commands one at a time, restarts, and ticks with every outcome of the
\* fetch, of the notifier and of the store
Next ==
    \/ Counted /\ NoCall /\ \E i \in Idents, th \in Thresholds : Subscribe(i[1], i[3], th, i[2])
    \/ Counted /\ NoCall /\ \E i \in Idents : Unsubscribe(i[1], i[3], i[2])
    \/ Counted /\ NoCall /\ Restart
    \/ Counted /\ NoCall /\ \E job \in JobSet(jobs), got \in Fetched(Prices, Symbols) : TickFetch(job, got)
    \/ ops' = ops /\ NoCall /\ \E job \in JobSet(jobs), d \in BOOLEAN : TickSend(job, d)
    \/ ops' = ops /\ NoCall /\ \E job \in JobSet(jobs), d \in BOOLEAN : TickTx(job, d)
    \/ ops' = ops /\ NoCall /\ \E job \in JobSet(jobs), d \in BOOLEAN : TickErr(job, d)
    \/ Advance

Spec == Init /\ [][Next]_vars

\* commands one at a time and ticks in which nothing fails; no restart
NextCmd ==
    \/ Counted /\ NoCall /\ \E i \in Idents, th \in Thresholds : Subscribe(i[1], i[3], th, i[2])
    \/ Counted /\ NoCall /\ \E i \in Idents : Unsubscribe(i[1], i[3], i[2])
    \/ Counted /\ NoCall /\ \E job \in JobSet(jobs), p \in Prices :
          TickFetch(job, [kind |-> "ok", price |-> Some(p), sym |-> "SYM"])
    \/ ops' = ops /\ NoCall /\ \E job \in JobSet(jobs) : TickSend(job, TRUE)
    \/ ops' = ops /\ NoCall /\ \E job \in JobSet(jobs) : TickTx(job, TRUE)

SpecCmd == Init /\ [][NextCmd]_vars

\* one subscription as the startup rebuild schedules it, with any persisted
\* price and threshold of the tick inputs
InitTick ==
    /\ \E pv \in {None} \cup {Some(p) : p \in TickPrices}, th \in TickThresholds :
          monitors = <<[NewRow(1, "solana", "A", th) EXCEPT
                           !.prev = pv,
                           !.prevAt = IF pv = None THEN None ELSE Some(0)]>>
    /\ prices = {}
    /\ tokens = ensure_token({}, "solana", "A", None)
    /\ jobs = RebuildLoop(monitors, <<1>>, EmptyBag)
    /\ now = BUCKET_SECS - 1
    /\ reply = "none"
    /\ ops = 0
    /\ calls = EmptyBag

\* the ticks of that subscription, over the tick inputs
NextTick ==
    \/ Counted /\ NoCall /\ \E job \in JobSet(jobs), got \in Fetched(TickPrices, Symbols) : TickFetch(job, got)
    \/ ops' = ops /\ NoCall /\ \E job \in JobSet(jobs), d \in BOOLEAN : TickSend(job, d)
    \/ ops' = ops /\ NoCall /\ \E job \in JobSet(jobs), d \in BOOLEAN : TickTx(job, d)
    \/ ops' = ops /\ NoCall /\ \E job \in JobSet(jobs), d \in BOOLEAN : TickErr(job, d)
    \/ Advance

SpecTick == InitTick /\ [][NextTick]_vars

\* commands one at a time, the store failing or not under /monitor, and ticks
\* in which nothing fails
NextFail ==
    \/ Counted /\ NoCall /\ \E i \in Idents, th \in Thresholds, c \in BOOLEAN :
          monitor(i[1], i[3], th, i[2], c)
    \/ Counted /\ NoCall /\ \E i \in Idents : Unsubscribe(i[1], i[3], i[2])
    \/ Counted /\ NoCall /\ \E job \in JobSet(jobs), p \in Prices :
          TickFetch(job, [kind |-> "ok", price |-> Some(p), sym |-> "SYM"])
    \/ ops' = ops /\ NoCall /\ \E job \in JobSet(jobs) : TickSend(job, TRUE)
    \/ ops' = ops /\ NoCall /\ \E job \in JobSet(jobs) : TickTx(job, TRUE)

SpecFail == Init /\ [][NextFail]_vars

\* commands one at a time with every threshold argument, and ticks in which
\* nothing fails
NextArgs ==
    \/ Counted /\ NoCall /\ \E i \in Idents, a \in {None} \cup {Some(t) : t \in ThresholdArgs} :
          monitor_args(i[1], i[3], a, i[2])
    \/ Counted /\ NoCall /\ \E i \in Idents : Unsubscribe(i[1], i[3], i[2])
    \/ Counted /\ NoCall /\ \E job \in JobSet(jobs), p \in Prices :
          TickFetch(job, [kind |-> "ok", price |-> Some(p), sym |-> "SYM"])
    \/ ops' = ops /\ NoCall /\ \E job \in JobSet(jobs) : TickSend(job, TRUE)
    \/ ops' = ops /\ NoCall /\ \E job \in JobSet(jobs) : TickTx(job, TRUE)

SpecArgs == Init /\ [][NextArgs]_vars

\* handlers that interleave at their store access, restarts, and ticks in
\* which nothing fails
NextConc ==
    \/ Counted /\ \E i \in Idents, th \in Thresholds : MonitorTx(i[1], i[3], th, i[2])
    \/ ops' = ops /\ \E c \in CallSet(calls) : MonitorSchedule(c)
    \/ Counted /\ \E i \in Idents : StopTx(i[1], i[3], i[2])
    \/ ops' = ops /\ \E c \in CallSet(calls) : StopSchedule(c)
    \/ Counted /\ StartupRead
    \/ ops' = ops /\ \E c \in CallSet(calls) : StartupLoop(c)
    \/ Counted /\ NoCall /\ \E job \in JobSet(jobs), p \in Prices :
          TickFetch(job, [kind |-> "ok", price |-> Some(p), sym |-> "SYM"])
    \/ ops' = ops /\ NoCall /\ \E job \in JobSet(jobs) : TickSend(job, TRUE)
    \/ ops' = ops /\ NoCall /\ \E job \in JobSet(jobs) : TickTx(job, TRUE)

SpecConc == Init /\ [][NextConc]_vars

\* Subscribe and Unsubscribe handlers that interleave at their store access,
\* and ticks in which nothing fails; no restart
NextPair ==
    \/ Counted /\ \E i \in Idents, th \in Thresholds : MonitorTx(i[1], i[3], th, i[2])
    \/ ops' = ops /\ \E c \in CallSet(calls) : MonitorSchedule(c)
    \/ Counted /\ \E i \in Idents : StopTx(i[1], i[3], i[2])
    \/ ops' = ops /\ \E c \in CallSet(calls) : StopSchedule(c)
    \/ Counted /\ NoCall /\ \E job \in JobSet(jobs), p \in Prices :
          TickFetch(job, [kind |-> "ok", price |-> Some(p), sym |-> "SYM"])
    \/ ops' = ops /\ NoCall /\ \E job \in JobSet(jobs) : TickSend(job, TRUE)
    \/ ops' = ops /\ NoCall /\ \E job \in JobSet(jobs) : TickTx(job, TRUE)

SpecPair == Init /\ [][NextPair]_vars

\* commands one at a time, ticks whose quote request stays outstanding, and
\* retention runs: whatever runs on the event loop runs while it is free
NextHang ==
    \/ Counted /\ NoCall /\ OnLoop /\
          \E i \in Idents, th \in Thresholds : Subscribe(i[1], i[3], th, i[2])
    \/ Counted /\ NoCall /\ OnLoop /\ \E i \in Idents : Unsubscribe(i[1], i[3], i[2])
    \/ Counted /\ NoCall /\ OnLoop /\ \E job \in JobSet(jobs) : TickCall(job)
    \/ ops' = ops /\ NoCall /\
          \E job \in JobSet(jobs), got \in Fetched(Prices, Symbols) : TickReturn(job, got)
    \/ ops' = ops /\ NoCall /\ OnLoop /\ \E job \in JobSet(jobs) : TickSend(job, TRUE)
    \/ ops' = ops /\ NoCall /\ OnLoop /\ \E job \in JobSet(jobs) : TickTx(job, TRUE)
    \/ ops' = ops /\ NoCall /\ OnLoop /\ \E job \in JobSet(jobs) : TickErr(job, TRUE)
    \/ Counted /\ NoCall /\ OnLoop /\ retention_job(TRUE)
    \/ Advance

SpecHang == Init /\ [][NextHang]_vars

\* the ticks of one subscription, with every statement of the store
\* transaction failing or none
NextTx ==
    \/ Counted /\ NoCall /\ \E job \in JobSet(jobs), p \in Prices :
          TickFetch(job, [kind |-> "ok", price |-> Some(p), sym |-> "SYM"])
    \/ ops' = ops /\ NoCall /\ \E job \in JobSet(jobs) : TickSend(job, TRUE)
    \/ ops' = ops /\ NoCall /\ \E job \in JobSet(jobs), k \in 0..3 : TickTxAt(job, k)
    \/ ops' = ops /\ NoCall /\ \E job \in JobSet(jobs), d \in BOOLEAN : TickErr(job, d)
    \/ Advance

SpecTx == InitTick /\ [][NextTx]_vars

\* Subscribes, ticks with every outcome of the fetch, of the notifier and of
\* the store, and retention runs that commit or fail
NextIso ==
    \/ Counted /\ NoCall /\ \E i \in Idents, th \in Thresholds : Subscribe(i[1], i[3], th, i[2])
    \/ Counted /\ NoCall /\ \E job \in JobSet(jobs), got \in Fetched(Prices, Symbols) : TickFetch(job, got)
    \/ ops' = ops /\ NoCall /\ \E job \in JobSet(jobs), d \in BOOLEAN : TickSend(job, d)
    \/ ops' = ops /\ NoCall /\ \E job \in JobSet(jobs), d \in BOOLEAN : TickTx(job, d)
    \/ ops' = ops /\ NoCall /\ \E job \in JobSet(jobs), d \in BOOLEAN : TickErr(job, d)
    \/ Counted /\ NoCall /\ \E c \in BOOLEAN : retention_job(c)

SpecIso == Init /\ [][NextIso]_vars

\* commands one at a time and ticks with every outcome of the fetch, of the
\* notifier and of the store; no restart, the clock stands
NextLife ==
    \/ Counted /\ NoCall /\ \E i \in Idents, th \in Thresholds : Subscribe(i[1], i[3], th, i[2])
    \/ Counted /\ NoCall /\ \E i \in Idents : Unsubscribe(i[1], i[3], i[2])
    \/ Counted /\ NoCall /\ \E job \in JobSet(jobs), got \in Fetched(Prices, Symbols) : TickFetch(job, got)
    \/ ops' = ops /\ NoCall /\ \E job \in JobSet(jobs), d \in BOOLEAN : TickSend(job, d)
    \/ ops' = ops /\ NoCall /\ \E job \in JobSet(jobs), d \in BOOLEAN : TickTx(job, d)
    \/ ops' = ops /\ NoCall /\ \E job \in JobSet(jobs), d \in BOOLEAN : TickErr(job, d)

SpecLife == Init /\ [][NextLife]_vars

\* two chats subscribed to one (chain, token), scheduled as the startup
\* rebuild schedules them, at any second of the clock
InitBucket ==
    /\ monitors = <<NewRow(1, "solana", "A", 500), NewRow(2, "solana", "A", 500)>>
    /\ prices = {}
    /\ tokens = ensure_token({}, "solana", "A", None)
    /\ jobs = RebuildLoop(monitors, <<1, 2>>, EmptyBag)
    /\ now \in 0..MaxTime
    /\ reply = "none"
    /\ ops = 0
    /\ calls = EmptyBag

\* the ticks of the two subscriptions, nothing failing, and the clock
NextBucket ==
    \/ Counted /\ NoCall /\ \E job \in JobSet(jobs), p \in Prices :
          TickFetch(job, [kind |-> "ok", price |-> Some(p), sym |-> "SYM"])
    \/ ops' = ops /\ NoCall /\ \E job \in JobSet(jobs) : TickSend(job, TRUE)
    \/ ops' = ops /\ NoCall /\ \E job \in JobSet(jobs) : TickTx(job, TRUE)
    \/ Advance

SpecBucket == InitBucket /\ [][NextBucket]_vars

\* one subscription that has ticked once, at second 0: its row holds the price
\* of that tick and the prices table the row of its bucket
InitSweep ==
    /\ monitors = <<[NewRow(1, "solana", "A", 500) EXCEPT
                       !.prev = Some(100), !.prevAt = Some(0)]>>
    /\ prices = store_price({}, "solana", "A", 0, 100)
    /\ tokens = ensure_token({}, "solana", "A", Some("SYM"))
    /\ jobs = RebuildLoop(monitors, <<1>>, EmptyBag)
    /\ now = 0
    /\ reply = "none"
    /\ ops = 0
    /\ calls = EmptyBag

\* ticks in which nothing fails, retention runs that commit or fail, and the
\* clock moving by hours
NextSweep ==
    \/ Counted /\ NoCall /\ \E job \in JobSet(jobs), p \in SweepPrices :
          TickFetch(job, [kind |-> "ok", price |-> Some(p), sym |-> "SYM"])
    \/ ops' = ops /\ NoCall /\ \E job \in JobSet(jobs) : TickSend(job, TRUE)
    \/ ops' = ops /\ NoCall /\ \E job \in JobSet(jobs) : TickTx(job, TRUE)
    \/ Counted /\ NoCall /\ \E c \in BOOLEAN : retention_job(c)
    \/ \E d \in SweepSteps : Elapse(d)

SpecSweep == InitSweep /\ [][NextSweep]_vars

----------------------------------------------------------------------------
(* Claims *)

IdentOf(r) == <<r.chat, r.chain, r.token>>

HasActiveRow(i) == ActiveIds(monitors, i[1], i[2], i[3]) # {}

\* the scheduled jobs of a subscription identity
LiveJobsOf(js, i) == {job \in JobSet(js) : job.live /\ IdentOf(job) = i}

LiveJobs(js) == {job \in JobSet(js) : job.live}

\* the scheduled jobs that poll for row m
LiveJobsOfRow(js, m) == {job \in JobSet(js) : job.live /\ job.mid = m}

\* C1: after any sequence of Subscribe and Unsubscribe commands run one at a
\* time, with no fatal tick and no restart, an identity (chat, chain, token)
\* has a scheduled job if and only if it has an active row.
C1_TaskIffActiveRow ==
    \A i \in Idents : (LiveJobsOf(jobs, i) # {}) <=> HasActiveRow(i)

\* C2: the startup rebuild leaves exactly one scheduled job per active row,
\* and no other job.
C2_RebuildOnePerRow ==
    [][Restart =>
         /\ \A m \in active_monitors(monitors) :
               \E job \in JobSet(jobs') :
                  /\ LiveJobsOfRow(jobs', m) = {job}
                  /\ CopiesIn(job, jobs') = 1
         /\ BagCardinality(jobs') = Cardinality(active_monitors(monitors))]_vars

\* C5: Unsubscribe on an identity with no active row replies "not active",
\* changes no row and removes no job of any identity.
C5_UnsubscribeInactiveFrame ==
    [][\A i \in Idents :
          (Unsubscribe(i[1], i[3], i[2]) /\ ~HasActiveRow(i)) =>
             /\ reply' = "noactive"
             /\ monitors' = monitors
             /\ jobs' = jobs]_vars

\* the identities whose job name no other identity of the model shares
Unshared == {i \in Idents : \A k \in Idents : JobName(k[1], k[3]) = JobName(i[1], i[3]) => k = i}

\* C6: Unsubscribe replies "stopped" exactly when the identity had an active
\* row; then the row is inactive and the identity has no scheduled job.
\* Stated for the identities of Unshared, so that it is about the identity's
\* own task, present or already gone after a fatal tick.
C6_UnsubscribeReportsWasActive ==
    [][\A i \in Unshared :
          Unsubscribe(i[1], i[3], i[2]) =>
             /\ (reply' = "stopped") <=> HasActiveRow(i)
             /\ ActiveIds(monitors', i[1], i[2], i[3]) = {}
             /\ LiveJobsOf(jobs', i) = {}]_vars

\* the task of row m is stopped: the row is active and no job polls for it
Stopped(js, m) == monitors[m].active /\ LiveJobsOfRow(js, m) = {}

\* C7: once the task of a subscription has stopped on a fatal tick, only a
\* Subscribe for its identity schedules it again.  Stated for the identities
\* of Unshared, whose task only a fatal tick stops while the row is active.
C7_FatalStopIsPermanent ==
    [][\A m \in 1..Len(monitors) :
          (/\ IdentOf(monitors[m]) \in Unshared
           /\ Stopped(jobs, m)
           /\ \A th \in Thresholds :
                 ~Subscribe(monitors[m].chat, monitors[m].token, th, monitors[m].chain))
          => LiveJobsOfRow(jobs', m) = {}]_vars

\* C8: when the send of the informational or of the alert message raises, the
\* task stays scheduled: the tick that follows the failed send leaves a
\* scheduled job for the row.
C8_NotifierFailureNotFatal ==
    [][\A job \in JobSet(jobs) :
          (/\ job.live /\ job.pc = "err" /\ job.exc = "notify"
           /\ job.msg \in {"info", "alert"}
           /\ \E d \in BOOLEAN : TickErr(job, d))
          => LiveJobsOfRow(jobs', job.mid) # {}]_vars

\* C3: a job of the startup rebuild carries the threshold and the price of
\* its active row, and its first tick, when the row has a price, decides
\* against that price and that threshold: an alert or nothing, never the
\* informational message.
C3_RebuiltFirstTickUsesPersisted ==
    \A job \in JobSet(jobs) :
       (job.live /\ job.boot) =>
          LET row == monitors[job.mid] IN
          /\ row.active
          /\ job.thr = row.thr
          /\ job.pc = "idle" => job.prev = row.prev
          /\ (job.pc \in {"send", "tx"} /\ row.prev # None) =>
                /\ job.msg # "info"
                /\ job.price # None =>
                      job.msg = IF Abs(Pct(Val(row.prev), Val(job.price))) >= row.thr
                                THEN "alert" ELSE "none"

\* C3 happens: the first tick of a rebuilt job has alerted against the price
\* its row holds
C3_Witness ==
    \E job \in JobSet(jobs) :
       /\ job.live /\ job.boot /\ job.pc = "tx" /\ job.msg = "alert"
       /\ monitors[job.mid].prev # None
       /\ monitors[job.mid].prev # job.price

\* C4: every step leaves at most one active row per identity and deletes no
\* row; Subscribe on an identity whose row is active adds no row, sets the
\* threshold of that row and schedules the job with that row's id.
C4_OneActiveRowPerIdentity ==
    [][/\ monitors' # monitors =>
             /\ \A i \in Idents : Cardinality(ActiveIds(monitors', i[1], i[2], i[3])) <= 1
             /\ Len(monitors') >= Len(monitors)
             /\ \A m \in 1..Len(monitors) : IdentOf(monitors'[m]) = IdentOf(monitors[m])
       /\ reply' = "started" =>
             \A i \in Idents, th \in Thresholds :
                (HasActiveRow(i) /\ Subscribe(i[1], i[3], th, i[2])) =>
                   LET m == CHOOSE k \in ActiveIds(monitors, i[1], i[2], i[3]) : TRUE IN
                   /\ Len(monitors') = Len(monitors)
                   /\ monitors'[m] = [monitors[m] EXCEPT !.thr = th]
                   /\ \E job \in LiveJobsOf(jobs', i) : job.mid = m]_vars

\* C4 happens: a Subscribe has rescheduled a row that already held a price,
\* with another threshold than the one a running tick of the row carries
C4_Witness ==
    \E job \in JobSet(jobs) :
       /\ job.live /\ ~job.boot /\ job.pc = "idle" /\ job.prev = None
       /\ monitors[job.mid].active
       /\ monitors[job.mid].prev # None
       /\ job.thr = monitors[job.mid].thr
       /\ \E old \in JobSet(jobs) : ~old.live /\ old.mid = job.mid /\ old.thr # job.thr

\* the only job of the queue
TheJob(js) == CHOOSE job \in JobSet(js) : TRUE

\* abs((new - prev) / prev * 100) >= thr, with no rounding (prev > 0)
ExactAlert(prev, new, thr) == Abs(new - prev) * 10000 >= thr * prev

\* C9 as claimed: a tick that obtains a price sends the informational message
\* when prev_price is unset, and otherwise alerts exactly when
\* abs((new - prev) / prev * 100) >= threshold (prev_price not 0).
C9_ExactPercentDecides ==
    [][(/\ BagCardinality(jobs) = 1 /\ BagCardinality(jobs') = 1
        /\ TheJob(jobs).pc = "idle" /\ TheJob(jobs').price # None) =>
          LET job == TheJob(jobs)
              tick == TheJob(jobs')
          IN  IF job.prev = None THEN tick.msg = "info"
              ELSE /\ tick.msg \in {"alert", "none"}
                   /\ Val(job.prev) # 0 =>
                        (tick.msg = "alert" <=>
                           ExactAlert(Val(job.prev), Val(tick.price), job.thr))]_vars

\* C9 amended: a tick that obtains a price sends the informational message
\* and no alert when prev_price is unset; otherwise it alerts exactly when
\* abs(pct) >= threshold for pct = round((new - prev) / prev * 100, 2), prev
\* replaced by 1e-9 when it is 0; and a tick that alerts at its threshold
\* would alert at every smaller threshold.
C9_RoundedPercentDecides ==
    [][(/\ BagCardinality(jobs) = 1 /\ BagCardinality(jobs') = 1
        /\ TheJob(jobs).pc = "idle" /\ TheJob(jobs').price # None) =>
          LET job == TheJob(jobs)
              tick == TheJob(jobs')
          IN  IF job.prev = None THEN tick.msg = "info" /\ tick.pc = "send"
              ELSE /\ tick.msg \in {"alert", "none"}
                   /\ tick.msg = "alert" <=>
                         Abs(Pct(Val(job.prev), Val(tick.price))) >= job.thr
                   /\ tick.msg = "alert" =>
                         \A th \in TickThresholds :
                            th <= job.thr =>
                               Abs(Pct(Val(job.prev), Val(tick.price))) >= th]_vars

\* C9 happens: a tick alerts at 5 % on a change of 4.99975 %
C9_Witness ==
    \E job \in JobSet(jobs) :
       /\ job.pc = "send" /\ job.msg = "alert" /\ job.thr = 500
       /\ job.prev = Some(20001) /\ job.price = Some(21001)

\* C10: every step leaves one row per (chain, token, bucket) in the prices
\* table and keeps every row as it was; a committed tick leaves a row for
\* its key, whichever tick inserted it first.
C10_OnePricePerBucket ==
    [][/\ \A r, q \in prices' :
             (r.chain = q.chain /\ r.token = q.token /\ r.ts = q.ts) => r = q
       /\ \A r \in prices : r \in prices'
       /\ \A job \in JobSet(jobs) :
             TickTx(job, TRUE) =>
                \E r \in prices' :
                   /\ r.chain = job.chain /\ r.token = job.token /\ r.ts = Val(job.ts)
                   /\ (r \notin prices => r.price = Val(job.price))]_vars

\* C10 happens: two subscriptions of one (chain, token) have committed
\* different prices in one bucket, and the row holds the first
C10_Witness ==
    \E r \in prices, a, b \in 1..Len(monitors) :
       /\ a # b
       /\ monitors[a].chain = r.chain /\ monitors[a].token = r.token
       /\ monitors[b].chain = r.chain /\ monitors[b].token = r.token
       /\ monitors[a].prevAt = Some(r.ts) /\ monitors[b].prevAt = Some(r.ts)
       /\ monitors[a].prev = Some(r.price)
       /\ monitors[b].prev # Some(r.price)

\* C11: a retention run that commits at time now deletes exactly the price
\* rows with ts older than now - 24h: a row stays if and only if its ts is
\* not older, no row appears and every monitors and tokens row is unchanged;
\* a run that fails changes nothing.
C11_SweepDeletesOlderThanWindow ==
    [][\A c \in BOOLEAN :
          retention_job(c) =>
             /\ monitors' = monitors /\ tokens' = tokens /\ jobs' = jobs
             /\ prices' \subseteq prices
             /\ \A r \in prices :
                   r \in prices' <=> (~c \/ r.ts + RETENTION_SECS >= now)]_vars

\* C11 happens: at hour 25 the row of hour 0 is gone and the row of hour 2
\* (now - 23h) is kept
C11_Witness ==
    /\ now = 25 * 3600
    /\ monitors[1].prevAt = Some(now - 23 * 3600)
    /\ \E r \in prices : r.ts = now - 23 * 3600
    /\ ~\E r \in prices : r.ts = 0

\* C12: when the store transaction of Subscribe fails, the handler raises
\* (it sends no reply), and the step changes no job of the queue, no row of
\* the store: no job is created, none is removed or replaced.
C12_SubscribeAbortsBeforeScheduling ==
    [][/\ (\E i \in Idents, th \in Thresholds : monitor(i[1], i[3], th, i[2], FALSE))
             => reply' = "raised"
       /\ reply' = "raised" =>
             /\ jobs' = jobs
             /\ monitors' = monitors /\ tokens' = tokens /\ prices' = prices]_vars

\* C12 happens: a Subscribe has failed while the jobs of both job names of
\* the model were scheduled, one of them with a tick in its transaction
C12_Witness ==
    /\ reply = "raised"
    /\ \E a \in LiveJobsOf(jobs, <<1, "solana", "A">>), b \in LiveJobsOf(jobs, <<2, "solana", "A">>) :
          a.pc = "idle" /\ b.pc = "tx"

\* C13: every row of the monitors table and every scheduled job has a
\* threshold above 0, whatever threshold argument /monitor was given.
C13_ThresholdPositive ==
    /\ \A m \in 1..Len(monitors) : monitors[m].thr > 0
    /\ \A job \in LiveJobs(jobs) : job.thr > 0

\* C14: under every interleaving of the handlers at their store access, and
\* of the ticks, the job queue never holds two scheduled jobs of one
\* subscription identity.
C14_OneLiveJobPerIdentity ==
    \A i \in Idents :
       /\ Cardinality(LiveJobsOf(jobs, i)) <= 1
       /\ \A job \in LiveJobsOf(jobs, i) : CopiesIn(job, jobs) = 1

\* C14 happens: two Subscribes of one identity have interleaved (the one
\* that wrote the row first scheduled last, so the scheduled job carries
\* another threshold than the row), a tick of the replaced job still runs,
\* and no handler is suspended
C14_Witness ==
    /\ calls = EmptyBag
    /\ reply = "started"
    /\ \E i \in Idents :
          \E job \in LiveJobsOf(jobs, i), old \in JobSet(jobs) :
             /\ monitors[job.mid].active
             /\ monitors[job.mid].thr # job.thr
             /\ ~old.live /\ IdentOf(old) = i /\ old.thr = monitors[job.mid].thr

\* C15: once every Subscribe and Unsubscribe handler has completed, however
\* they interleaved, the schedule agrees with the store: an identity has a
\* scheduled job if and only if its row is active, and the job carries the
\* id and the threshold of that row.  Stated for the identities of Unshared,
\* whose job name no other identity removes.
C15_ScheduleAgreesWithStore ==
    calls = EmptyBag =>
       \A i \in Unshared :
          /\ (LiveJobsOf(jobs, i) # {}) <=> HasActiveRow(i)
          /\ \A job \in LiveJobsOf(jobs, i) :
                /\ job.mid \in ActiveIds(monitors, i[1], i[2], i[3])
                /\ job.thr = monitors[job.mid].thr

\* C16: while the quote request of one job is outstanding, the tick of every
\* other scheduled job can start, a retention run can run, and Subscribe and
\* Unsubscribe can be handled.
C16_HungFetchDelaysOnlyItsTask ==
    \A job \in JobSet(jobs) :
       job.pc = "fetch" =>
          /\ \A other \in LiveJobs(jobs) :
                other.pc = "idle" =>
                   ENABLED (OnLoop /\ TickCall(other) /\ UNCHANGED <<ops, calls>>)
          /\ ENABLED (OnLoop /\ retention_job(TRUE) /\ UNCHANGED <<ops, calls>>)
          /\ ENABLED (OnLoop /\ UNCHANGED <<ops, calls>> /\
                         \E i \in Idents, th \in Thresholds : Subscribe(i[1], i[3], th, i[2]))
          /\ ENABLED (OnLoop /\ UNCHANGED <<ops, calls>> /\
                         \E i \in Idents : Unsubscribe(i[1], i[3], i[2]))

\* what the step made of job: the records of the queue after the step that
\* are not the other jobs of the queue before it
After(job) == BagToSet(jobs' (-) (jobs (-) SetToBag({job})))

\* C17: once a tick that obtained a price is past its message, whether the
\* message was sent or not and whether the store write commits or not, the
\* job's cached prev_price is the price of the tick; and a store write that
\* fails leaves prev_price and prev_price_at of the row as they were, while
\* the cached one has advanced.
C17_CachedPrevAdvances ==
    [][\A job \in JobSet(jobs), d \in BOOLEAN :
          /\ (job.price # None /\ (TickSend(job, d) \/ TickTx(job, d))) =>
                \A next \in After(job) : next.prev = job.price
          /\ (job.price # None /\ TickTx(job, FALSE)) =>
                /\ monitors' = monitors
                /\ \A next \in After(job) : next.prev = job.price]_vars

\* C18: the store transaction of a tick leaves the three tables as they
\* were, or it leaves the price row of the tick's bucket stored, the row of
\* the subscription advanced to the tick's price and bucket, and the symbol
\* of the token set when the tick saw one; whichever statement fails.
C18_TickWritesAllOrNothing ==
    [][\A job \in JobSet(jobs), k \in 0..3 :
          TickTxAt(job, k) =>
             \/ prices' = prices /\ monitors' = monitors /\ tokens' = tokens
             \/ /\ \E r \in prices' :
                      r.chain = job.chain /\ r.token = job.token /\ r.ts = Val(job.ts)
                /\ monitors'[job.mid].prev = job.price
                /\ monitors'[job.mid].prevAt = job.ts
                /\ job.sym # "?" =>
                      \E t \in tokens' :
                         /\ t.chain = job.chain /\ t.token = job.token
                         /\ t.symbol = Some(job.sym)]_vars

\* C18 happens: the second statement of the first transaction of a
\* subscription has raised, after the price insert, and no price row is
\* stored
C18_Witness ==
    \E job \in JobSet(jobs) :
       /\ job.pc = "err" /\ job.exc = "store2"
       /\ job.prev # None
       /\ monitors[job.mid].prev = None
       /\ prices = {}

\* C19: whatever fails in a tick, the fetch, the store write, the notifier,
\* also the notifier when the tick reports its error, the tick that has
\* failed ends with its job removed from the schedule and every other job as
\* it was; and a retention run, failing or not, changes no job.
C19_FailuresStayInTheTask ==
    [][/\ \A job \in JobSet(jobs), d \in BOOLEAN :
             (job.pc = "err" /\ TickErr(job, d)) =>
                /\ \A next \in After(job) : ~next.live
                /\ (jobs (-) SetToBag({job})) \sqsubseteq jobs'
       /\ \A c \in BOOLEAN : retention_job(c) => jobs' = jobs]_vars

\* C20: when Unsubscribe has removed the jobs of a name, or Subscribe has
\* replaced them, no job of the name from before is scheduled any more, and
\* each of them with a tick in flight is still there, removed, to finish it;
\* a removed job never starts a tick and never becomes scheduled again, its
\* store transaction can still run and commits as any other, and it is gone
\* when its tick ends; a job that stops itself is gone at once.
C20_RemovedJobStartsNoTick ==
    [][/\ reply' \in {"stopped", "started"} =>
             \A i \in Idents :
                ((\E th \in Thresholds : Subscribe(i[1], i[3], th, i[2]))
                    \/ Unsubscribe(i[1], i[3], i[2])) =>
                   /\ \A next \in get_jobs_by_name(jobs', JobName(i[1], i[3])) :
                         /\ reply' = "started"
                         /\ next.pc = "idle" /\ next.prev = None /\ ~next.boot
                         /\ CopiesIn(next, jobs') = 1
                   /\ Cardinality(get_jobs_by_name(jobs', JobName(i[1], i[3]))) <= 1
                   /\ \A job \in JobSet(jobs) :
                         (job.name = JobName(i[1], i[3]) /\ job.pc # "idle") =>
                            CopiesIn([job EXCEPT !.live = FALSE], jobs') >= CopiesIn(job, jobs)
       /\ \A job \in JobSet(jobs) :
             ~job.live =>
                /\ job.pc # "idle"
                /\ \A got \in Fetched(Prices, Symbols) : ~TickFetch(job, got)
                /\ job.pc = "tx" => ENABLED (TickTx(job, TRUE) /\ UNCHANGED <<ops, calls>>)
                /\ \A d \in BOOLEAN :
                      (TickSend(job, d) \/ TickTx(job, d) \/ TickErr(job, d)) =>
                         /\ \A next \in After(job) : ~next.live /\ next.pc # "idle"
                         /\ (d /\ job.pc = "tx") =>
                               /\ monitors'[job.mid].prev = job.price
                               /\ After(job) = {}
       /\ \A job \in JobSet(jobs) :
             (/\ job.pc \in {"send", "err"}
              /\ job.pc = "err" \/ job.msg \in {"nopairs", "noprice"}
              /\ TickSend(job, TRUE) \/ TickErr(job, TRUE))
             => After(job) = {}]_vars

\* C20 happens: Unsubscribe has just removed a job whose tick is at its
\* store transaction; the job is still there, its row is inactive
C20_Witness ==
    /\ reply = "stopped"
    /\ \E job \in JobSet(jobs) :
          /\ ~job.live /\ job.pc = "tx"
          /\ ~monitors[job.mid].active
          /\ get_jobs_by_name(jobs, job.name) = {}

\* the bucket stamps the store and the running ticks hold
Stamps ==
    {r.ts : r \in prices}
      \cup {Val(monitors[m].prevAt) : m \in {k \in 1..Len(monitors) : monitors[k].prevAt # None}}
      \cup {Val(job.ts) : job \in {j \in JobSet(jobs) : j.ts # None}}

\* C21: a tick that reads the clock at now stamps its price with a multiple
\* of BUCKET_SECS with ts_bucket <= now < ts_bucket + BUCKET_SECS; so two
\* stamps of the store and of the running ticks are equal or at least a
\* bucket apart, whichever subscription made them, and none is after now.
\* For every bucket seconds b of 1..MaxBucket and every second n up to now,
\* ts_bucket is a multiple of b with ts_bucket <= n < ts_bucket + b, and two
\* seconds in one window [k, k + b) of a multiple k of b get one ts_bucket.
C21_BucketIsWindowStart ==
    [][/\ \A job \in JobSet(jobs), p \in Prices :
             TickFetch(job, [kind |-> "ok", price |-> Some(p), sym |-> "SYM"]) =>
                \A next \in After(job) :
                   /\ next.ts # None
                   /\ Val(next.ts) % BUCKET_SECS = 0
                   /\ Val(next.ts) <= now /\ now < Val(next.ts) + BUCKET_SECS
       /\ \A t, u \in Stamps' :
             /\ t <= now'
             /\ t = u \/ t + BUCKET_SECS <= u \/ u + BUCKET_SECS <= t
       /\ \A b \in 1..MaxBucket, n \in 0..now' :
             /\ ts_bucket(n, b) % b = 0
             /\ ts_bucket(n, b) <= n /\ n < ts_bucket(n, b) + b
             /\ \A o \in 0..n :
                   (\E k \in 0..o : k % b = 0 /\ n < k + b) =>
                      ts_bucket(o, b) = ts_bucket(n, b)]_vars

\* C21 happens: the ticks of the two chats have stamped the same bucket, one
\* has committed and the other is at its transaction a bucket's last second,
\* and the table holds the one row of that bucket
C21_Witness ==
    /\ now = BUCKET_SECS - 1
    /\ monitors[1].prevAt = Some(0)
    /\ \E job \in JobSet(jobs) : job.mid = 2 /\ job.pc = "tx" /\ job.ts = Some(0)
    /\ Cardinality(prices) = 1

====
